---- MODULE Spec2Model ----
(***************************************************************************)
(* KB-Populator: the three enrichment pipelines (activities, dining,       *)
(* accommodation) as a state machine.                                      *)
(*                                                                         *)
(* Encoding of Python values                                               *)
(*   text   a sequence of units; a unit is one character ("a", " ", "?")   *)
(*          or one uninterpreted literal chunk ("N/A", a fixed message).   *)
(*          A literal is always written the same way, so equality of       *)
(*          texts is equality of the Python strings they stand for.        *)
(*   value  a record [t, s, l, o]: t is the Python type, s the scalar      *)
(*          payload (a text), l the items of a list (texts), o the items   *)
(*          of a dict (key -> value).  A list of reviews keeps the review  *)
(*          texts in l and the publish times, in the same order, in s.     *)
(*   dict   a function from its keys (strings) to values.                  *)
(***************************************************************************)
EXTENDS Integers, Sequences, FiniteSets, TLC

VARIABLES
    category,       \* which orchestrator runs: "activities", "dining", "accommodation"
    user_name,      \* the name the user supplied (text)
    user_city,      \* the city the user supplied (text, possibly empty)
    pplx_key,       \* st.secrets["api_keys"]["perplexity"]
    pc,             \* position of the orchestrator
    search_params,  \* activities: the Resolver's result
    place_details,  \* the PlacesLookup result
    research,       \* the ResearchAnalyzer result
    prompt,         \* the place data in the research prompt that was sent
    formatted,      \* the Formatter result
    outcome,        \* "running", "returned" or "raised"
    result,         \* the returned mapping
    raised,         \* the exception that left the orchestrator
    calls,          \* the stage functions invoked so far, in order
    requests,       \* the HTTP requests sent so far, in order
    api_response,   \* the response of the places API the lookup consumed
    llm_responses,  \* the chat-completion responses consumed, in order
    batch,          \* batch mode: "none", "running", "emitted" or "aborted"
    df,             \* batch mode: the uploaded rows, each a name and a city
    row_index,      \* batch mode: the row being processed (0 before the first)
    invoked,        \* batch mode: the rows the pipeline was invoked for, in order
    row_log,        \* batch mode: what the pipeline gave for each finished row
    returned_rows,  \* batch mode: the rows process_* returned so far
    progress,       \* batch mode: the counts reported to the progress bar
    final_df        \* batch mode: the emitted table

vars == <<category, user_name, user_city, pplx_key, pc, search_params,
          place_details, research, prompt, formatted, outcome, result, raised,
          calls, requests, api_response, llm_responses,
          batch, df, row_index, invoked, row_log, returned_rows, progress,
          final_df>>

bvars == <<batch, df, row_index, invoked, row_log, returned_rows, progress,
           final_df>>

----------------------------------------------------------------------------
(* Bounds *)

MaxPhotos == 4          \* source photos per place
MaxPlaces == 2          \* candidates in one API response
MaxRows == 2            \* rows of an uploaded table
MaxUrl == 4             \* units of a source website URL
MaxReviews == 6         \* reviews of a place
MaxDays == 2            \* weekday descriptions of a place
MaxHourLen == 2         \* units of one weekday description

----------------------------------------------------------------------------
(* Texts *)

Lit(s) == <<s>>

NA == Lit("N/A")
NotAvailable == Lit("Not Available")
Unknown == Lit("Unknown")
EmptyText == <<>>

Whitespace == {" ", "\n", "\t"}

RECURSIVE lstrip(_)
lstrip(s) ==
    IF s # <<>> /\ Head(s) \in Whitespace THEN lstrip(Tail(s)) ELSE s

RECURSIVE rstrip(_)
rstrip(s) ==
    IF s # <<>> /\ s[Len(s)] \in Whitespace
    THEN rstrip(SubSeq(s, 1, Len(s) - 1)) ELSE s

strip(s) == rstrip(lstrip(s))

RECURSIVE rstrip_slash(_)
rstrip_slash(s) ==
    IF s # <<>> /\ s[Len(s)] = "/"
    THEN rstrip_slash(SubSeq(s, 1, Len(s) - 1)) ELSE s

startswith(s, p) == Len(s) >= Len(p) /\ SubSeq(s, 1, Len(p)) = p

endswith(s, p) ==
    Len(s) >= Len(p) /\ SubSeq(s, Len(s) - Len(p) + 1, Len(s)) = p

\* s.split('?')[0]
RECURSIVE before_query(_)
before_query(s) ==
    IF s = <<>> \/ Head(s) = "?" THEN <<>>
    ELSE <<Head(s)>> \o before_query(Tail(s))

Contains(s, c) == \E i \in 1..Len(s) : s[i] = c

----------------------------------------------------------------------------
(* Values *)

EmptyObj == <<>>

Str(x)   == [t |-> "str",  s |-> x,              l |-> <<>>, o |-> EmptyObj]
Num(x)   == [t |-> "num",  s |-> Lit(x),         l |-> <<>>, o |-> EmptyObj]
True     == [t |-> "bool", s |-> Lit("true"),    l |-> <<>>, o |-> EmptyObj]
False    == [t |-> "bool", s |-> Lit("false"),   l |-> <<>>, o |-> EmptyObj]
List(x)  == [t |-> "list", s |-> <<>>,           l |-> x,    o |-> EmptyObj]
Obj(x)   == [t |-> "dict", s |-> <<>>,           l |-> <<>>, o |-> x]
Exc(x)   == [t |-> "exception", s |-> Lit(x),    l |-> <<>>, o |-> EmptyObj]
Reviews(texts, times) ==
            [t |-> "list", s |-> times,          l |-> texts, o |-> EmptyObj]

EmptyDict == <<>>

\* d[k] = v on a dict
Put(d, k, v) == [x \in DOMAIN d \cup {k} |-> IF x = k THEN v ELSE d[x]]

\* a dict with one key
One(k, v) == [x \in {k} |-> v]

\* "error" in d
HasError(d) == "error" \in DOMAIN d

\* json.dumps accepts str, number, bool, None, list and dict, and raises
\* TypeError on anything else
RECURSIVE Serializable(_)
Serializable(d) ==
    \A k \in DOMAIN d :
        /\ d[k].t # "exception"
        /\ d[k].t = "dict" => Serializable(d[k].o)

----------------------------------------------------------------------------
(* PlacesLookup: activities/google_places.py.  The dining and accommodation *)
(* packages import a google_places module of their own package; the three  *)
(* orchestrators are modelled on this one.                                 *)

\* st.secrets["api_keys"]["google_places"]
GooglePlacesKey == Lit("<google-places-key>")

Min(a, b) == IF a < b THEN a ELSE b

\* place.get(k, default): a place of the API response is a record whose
\* field present lists the keys the JSON object carries
Get(place, k, default) == IF k \in place.present THEN place[k] ELSE default

\* ", ".join(types)
RECURSIVE join_types(_)
join_types(types) ==
    IF types = <<>> THEN <<>>
    ELSE IF Len(types) = 1 THEN Head(types)
    ELSE Head(types) \o Lit(", ") \o join_types(Tail(types))

category_of(place) ==
    LET types == Get(place, "types", <<>>)
    IN  IF types # <<>> THEN join_types(types) ELSE NA

\* a summary is a dict with at most the key "text"
summary_text(summary) ==
    IF "text" \in DOMAIN summary THEN summary["text"] ELSE NA

description_of(place) ==
    IF "editorialSummary" \in place.present
        THEN summary_text(place.editorialSummary)
    ELSE IF "generativeSummary" \in place.present
        THEN summary_text(place.generativeSummary)
    ELSE NA

google_rating_of(place) ==
    IF "rating" \in place.present THEN Num(place.rating) ELSE Str(NA)

clean_website_slash_first(website) ==
    IF website # NA /\ website # <<>>
    THEN LET stripped == rstrip_slash(website)
         IN  IF Contains(stripped, "?")
             THEN before_query(stripped) ELSE stripped
    ELSE website

clean_website(website) ==
    IF website # NA /\ website # <<>>
    THEN rstrip_slash(IF Contains(website, "?")
                      THEN before_query(website) ELSE website)
    ELSE website

website_of(place) == clean_website(Get(place, "websiteUri", NA))

clean_unit_keeping_nbsp(c) ==
    CASE c = "U+2009" -> " "
      [] c = "U+2013" -> "-"
      [] c = "U+202F" -> " "
      [] OTHER -> c

clean_unit(c) ==
    CASE c = "U+2009" -> " "
      [] c = "U+2013" -> "-"
      [] c = "U+202F" -> " "
      [] c = "U+00A0" -> " "
      [] OTHER -> c

clean_hour_text(hour_text) ==
    [i \in 1..Len(hour_text) |-> clean_unit(hour_text[i])]

opening_hours_of(place) ==
    LET weekday_descriptions == Get(place, "regularOpeningHours", <<>>)
    IN  IF weekday_descriptions # <<>>
        THEN List([i \in 1..Len(weekday_descriptions) |->
                      clean_hour_text(weekday_descriptions[i])])
        ELSE Str(NA)

photo_url(photo_name) ==
    Lit("https://places.googleapis.com/v1/") \o photo_name
        \o Lit("/media?maxHeightPx=800&maxWidthPx=800&key=")
        \o GooglePlacesKey

\* the slice [:3] left out
first_three_unsliced(photos_data) == photos_data

\* photos_data[:3]
first_three(photos_data) == SubSeq(photos_data, 1, Min(3, Len(photos_data)))

\* the loop over the first photos: a photo without a name is skipped
RECURSIVE collect_photo_urls(_)
collect_photo_urls(photos) ==
    IF photos = <<>> THEN <<>>
    ELSE (IF Head(photos) # <<>> THEN <<photo_url(Head(photos))>> ELSE <<>>)
            \o collect_photo_urls(Tail(photos))

pad_photo_urls_in_front(photo_urls) ==
    IF Len(photo_urls) < 3
    THEN [i \in 1..(3 - Len(photo_urls)) |-> NA] \o photo_urls
    ELSE photo_urls

RECURSIVE pad_photo_urls(_)
pad_photo_urls(photo_urls) ==
    IF Len(photo_urls) < 3 THEN pad_photo_urls(Append(photo_urls, NA))
    ELSE photo_urls

photo_urls_of(place) ==
    pad_photo_urls(collect_photo_urls(first_three(Get(place, "photos", <<>>))))

\* reviews with a non-empty text, as parallel sequences of texts and times
RECURSIVE review_texts(_)
review_texts(reviews_data) ==
    IF reviews_data = <<>> THEN <<>>
    ELSE (IF Head(reviews_data).text # <<>>
          THEN <<Head(reviews_data).text>> ELSE <<>>)
            \o review_texts(Tail(reviews_data))

RECURSIVE review_times(_)
review_times(reviews_data) ==
    IF reviews_data = <<>> THEN <<>>
    ELSE (IF Head(reviews_data).text # <<>>
          THEN <<Head(reviews_data).publishTime>> ELSE <<>>)
            \o review_times(Tail(reviews_data))

reviews_of(place) ==
    LET reviews_data == Get(place, "reviews", <<>>)
    IN  Reviews(review_texts(reviews_data), review_times(reviews_data))

PlaceKeys == {"Formatted Address", "Category", "Description", "google_rating",
              "website", "google_maps_url", "opening_hours", "photo_urls",
              "reviews"}

place_data_of(place) ==
    [k \in PlaceKeys |->
        CASE k = "Formatted Address" -> Str(Get(place, "formattedAddress", NA))
          [] k = "Category"          -> Str(category_of(place))
          [] k = "Description"       -> Str(description_of(place))
          [] k = "google_rating"     -> google_rating_of(place)
          [] k = "website"           -> Str(website_of(place))
          [] k = "google_maps_url"   -> Str(Get(place, "googleMapsUri", NA))
          [] k = "opening_hours"     -> opening_hours_of(place)
          [] k = "photo_urls"        -> List(photo_urls_of(place))
          [] k = "reviews"           -> reviews_of(place)]

\* the mapping returned when the request or the decoding raised
lookup_failure(kind) ==
    CASE kind = "RequestException" ->
            One("Error making Google Places API request", Exc(kind))
      [] kind = "JSONDecodeError" ->
            One("Error parsing JSON response in Google Places API", Exc(kind))
      [] OTHER ->
            One("Unexpected error in Google Places API", Exc(kind))

\* resp.kind is "ok" when the POST returned a 2xx JSON object, otherwise the
\* class of the exception raised inside the try block
search_places_with_details_last(resp) ==
    IF resp.kind # "ok" THEN Obj(lookup_failure(resp.kind))
    ELSE IF resp.places = <<>> THEN Obj(EmptyDict)
    ELSE Obj(place_data_of(resp.places[Len(resp.places)]))

search_places_with_details(resp) ==
    IF resp.kind # "ok" THEN Obj(lookup_failure(resp.kind))
    ELSE IF resp.places = <<>> THEN Obj(EmptyDict)
    ELSE Obj(place_data_of(resp.places[1]))

----------------------------------------------------------------------------
(* Chat-completion responses                                               *)
(*                                                                         *)
(* A response is [kind, content, body].  kind is "content" when the POST   *)
(* returned a 2xx JSON object with a non-empty choices list, "nochoices" *)
(* when that list is missing or empty, otherwise the class of the          *)
(* exception raised ("RequestException", "Exception").  content is the     *)
(* text of choices[0].message.content, in which the unit "@" stands for    *)
(* the body of the answer (non-empty, no surrounding whitespace, no        *)
(* backquotes); body says what json.loads makes of that body.               *)
(***************************************************************************)

\* the backquote character
BQ == "<backquote>"

FenceJson == <<BQ, BQ, BQ, "j", "s", "o", "n">>
Fence == <<BQ, BQ, BQ>>

\* content.strip(); drop a leading fence with the json tag; drop a trailing
\* fence; strip()
strip_fences(content) ==
    LET c1 == strip(content)
        c2 == IF startswith(c1, FenceJson)
              THEN SubSeq(c1, 8, Len(c1)) ELSE c1
        c3 == IF endswith(c2, Fence)
              THEN SubSeq(c2, 1, Len(c2) - 3) ELSE c2
    IN  strip(c3)

\* json.loads(text) succeeds exactly when the text is the body alone and the
\* body is a JSON document
json_valid(text, body) == text = <<"@">> /\ body.valid

json_loads(text, body) == body.v

\* key in v, for a dict or a list of strings
In(key, v) ==
    IF v.t = "dict" THEN key \in DOMAIN v.o
    ELSE \E i \in 1..Len(v.l) : v.l[i] = Lit(key)

ErrorResult(msg) == Obj(One("error", Str(Lit(msg))))

----------------------------------------------------------------------------
(* Resolver: activities/openaicalls.py, get_google_places_search_params *)

\* context_city if context_city else "Unknown"
city_or_unknown(context_city) ==
    IF context_city # <<>> THEN context_city ELSE Unknown

\* the fallback without .strip()
resolver_fallback_untrimmed(activity_name, context_city) ==
    Obj([k \in {"place_name", "city"} |->
            IF k = "place_name" THEN Str(activity_name)
            ELSE Str(city_or_unknown(context_city))])

resolver_fallback(activity_name, context_city) ==
    Obj([k \in {"place_name", "city"} |->
            IF k = "place_name" THEN Str(strip(activity_name))
            ELSE Str(city_or_unknown(context_city))])

dict_get(v, k, default) == IF k \in DOMAIN v.o THEN v.o[k] ELSE default

get_google_places_search_params(activity_name, context_city, resp) ==
    IF resp.kind # "content"
        THEN resolver_fallback(activity_name, context_city)
    ELSE IF ~json_valid(strip_fences(resp.content), resp.body)
        THEN resolver_fallback(activity_name, context_city)
    ELSE LET parsed_result == json_loads(strip_fences(resp.content), resp.body)
         IN  IF parsed_result.t # "dict"
             \* parsed_result.get raises AttributeError, caught by the
             \* outer except Exception
             THEN resolver_fallback(activity_name, context_city)
             ELSE Obj([k \in {"place_name", "city"} |->
                    IF k = "place_name"
                    THEN dict_get(parsed_result, "place_name",
                                  Str(activity_name))
                    ELSE dict_get(parsed_result, "city",
                                  Str(city_or_unknown(context_city)))])

----------------------------------------------------------------------------
(* ResearchAnalyzer:                                                       *)
(* activities/perplexity_analyzer.py, dining/perplexity_analyzer.py,      *)
(* accommodation/perplexity_analyzer.py                                    *)

PplxPrefix == <<"p", "p", "l", "x", "-">>

\* the two checks that precede the request
research_precheck_swapped(cat, api_key, places_api_output) ==
    IF places_api_output.o = EmptyDict
        THEN ErrorResult("No places data provided")
    ELSE IF ~startswith(api_key, PplxPrefix)
        THEN IF cat = "accommodation"
             THEN ErrorResult("Invalid Perplexity API key format")
             ELSE ErrorResult("Invalid API key format")
    ELSE Obj(EmptyDict)

research_precheck(cat, api_key, places_api_output) ==
    IF ~startswith(api_key, PplxPrefix)
        THEN IF cat = "accommodation"
             THEN ErrorResult("Invalid Perplexity API key format")
             ELSE ErrorResult("Invalid API key format")
    ELSE IF places_api_output.o = EmptyDict
        THEN ErrorResult("No places data provided")
    ELSE Obj(EmptyDict)

research_sends_request(cat, api_key, places_api_output) ==
    ~HasError(research_precheck(cat, api_key, places_api_output).o)

\* reviews[:5]
first_five(reviews) == SubSeq(reviews, 1, Min(5, Len(reviews)))

NoPrompt == EmptyDict

\* the place data the analyzer puts into its prompt, by the prompt's labels;
\* the texts joined with " | " are kept as the list of the joined texts
research_prompt(cat, places_api_output) ==
    LET reviews == dict_get(places_api_output, "reviews", List(<<>>)).l
        opening_hours == dict_get(places_api_output, "opening_hours", Str(NA))
        labels ==
            {"Google Category", "Google Description", "Google Rating",
             "Sample Reviews"}
                \cup (IF cat = "dining" THEN {"Opening Hours", "Website"}
                      ELSE {"Formatted Address"})
    IN  [label \in labels |->
            CASE label = "Google Category" ->
                    dict_get(places_api_output, "Category", Str(NA))
              [] label = "Google Description" ->
                    dict_get(places_api_output, "Description", Str(NA))
              [] label = "Google Rating" ->
                    dict_get(places_api_output, "google_rating", Str(NA))
              [] label = "Formatted Address" ->
                    dict_get(places_api_output, "Formatted Address", Str(NA))
              [] label = "Website" ->
                    dict_get(places_api_output, "website", Str(NA))
              [] label = "Opening Hours" ->
                    IF opening_hours = Str(NA) THEN Str(EmptyText)
                    ELSE opening_hours
              [] label = "Sample Reviews" ->
                    IF cat = "dining" THEN List(reviews)
                    ELSE List(first_five(reviews))]

research_failure(resp) ==
    CASE resp.kind = "RequestException" ->
            ErrorResult("API request failed: <RequestException>")
      [] resp.kind = "nochoices" ->
            ErrorResult("No valid response from Perplexity API")
      [] OTHER ->
            ErrorResult("Unexpected error: <Exception>")

\* analyze_activity_with_perplexity and analyze_dining_with_perplexity
analyze_with_parse(cat, api_key, places_api_output, resp) ==
    IF ~research_sends_request(cat, api_key, places_api_output)
        THEN research_precheck(cat, api_key, places_api_output)
    ELSE IF resp.kind # "content" THEN research_failure(resp)
    ELSE LET content == strip_fences(resp.content)
         IN  IF json_valid(content, resp.body)
             THEN Obj([k \in {"parsed_data", "raw_response", "status"} |->
                    CASE k = "parsed_data"  -> json_loads(content, resp.body)
                      [] k = "raw_response" -> Str(content)
                      [] k = "status"       -> Str(Lit("success"))])
             ELSE Obj([k \in {"raw_response", "status"} |->
                    IF k = "raw_response" THEN Str(content)
                    ELSE Str(Lit("success_raw_only"))])

analyze_activity_with_perplexity(api_key, places_api_output, resp) ==
    analyze_with_parse("activities", api_key, places_api_output, resp)

analyze_dining_with_perplexity(api_key, places_api_output, resp) ==
    analyze_with_parse("dining", api_key, places_api_output, resp)

get_dining_info(api_key, places_api_output, resp) ==
    LET res == analyze_dining_with_perplexity(api_key, places_api_output, resp)
    IN  IF HasError(res.o) THEN res
        ELSE IF "parsed_data" \in DOMAIN res.o THEN res.o["parsed_data"]
        ELSE Obj(One("raw_response", res.o["raw_response"]))

analyze_place_with_perplexity(api_key, places_api_output, resp) ==
    IF ~research_sends_request("accommodation", api_key, places_api_output)
        THEN research_precheck("accommodation", api_key, places_api_output)
    ELSE IF resp.kind # "content" THEN research_failure(resp)
    ELSE Obj([k \in {"raw_response", "status"} |->
            IF k = "raw_response" THEN Str(resp.content)
            ELSE Str(Lit("success"))])

----------------------------------------------------------------------------
(* Formatter: activities/openaicalls.py, format_perplexity_output *)

formatter_failure(kind) ==
    CASE kind = "RequestException" ->
            ErrorResult("Azure OpenAI API request failed: <RequestException>")
      [] kind = "nochoices" ->
            ErrorResult("No valid response received from Azure OpenAI")
      [] kind = "JSONDecodeError" ->
            ErrorResult("Failed to parse Azure OpenAI response as JSON: <JSONDecodeError>")
      [] OTHER ->
            ErrorResult("Unexpected error in Azure OpenAI formatting: <Exception>")

\* json.dumps(google_places_data, indent=2) is evaluated while the prompt is
\* built, before the try block: its TypeError leaves the formatter
formatter_raises(google_places_data) == ~Serializable(google_places_data.o)

ActivitiesBooleanFields ==
    {"Must_Do", "Group_Friendly", "Offbeat", "Historic_Cultural", "Party",
     "Pet_Friendly", "Adventurous", "Kid_Friendly", "Romantic",
     "Wellness_Relaxation", "Senior_Citizen_Friendly"}

ActivitiesPriceFields == {"Price_Adult_INR", "Price_Child_INR"}

ActivitiesRequiredFields ==
    {"Category", "Description", "Price_Adult_INR", "Price_Child_INR",
     "Duration", "Timings", "Season_Operational_Months", "Inclusions",
     "Exclusions"} \cup ActivitiesBooleanFields

activities_default(field) ==
    IF field \in ActivitiesBooleanFields THEN False
    ELSE IF field \in ActivitiesPriceFields THEN Num("0")
    ELSE Str(NotAvailable)

----------------------------------------------------------------------------
(* Formatter: accommodation/openaicalls.py, format_with_azure_openai, and   *)
(* the code it shares with the activities formatter                        *)

AccommodationBooleanFields ==
    {"Pool", "Pet Friendly", "View", "Kid Friendly", "Romantic",
     "Senior Citizen Friendly"}

AccommodationRequiredFields ==
    {"Country", "Destination L1 (State)", "Destination L2 (City)",
     "Destination L3 (Zone/ Area)", "Category", "Name", "Description",
     "Google Rating"} \cup AccommodationBooleanFields

accommodation_default(field) ==
    IF field \in AccommodationBooleanFields THEN False ELSE Str(NA)

required_fields(cat) ==
    IF cat = "activities" THEN ActivitiesRequiredFields
    ELSE AccommodationRequiredFields

field_default(cat, field) ==
    IF cat = "activities" THEN activities_default(field)
    ELSE accommodation_default(field)

\* the loop "for field in required_fields: if field not in formatted_data:
\* formatted_data[field] = default" of the activities and accommodation
\* formatters.  On a dict it adds the absent fields; on a list that names
\* every field it changes nothing; on any other list the first assignment
\* raises TypeError, which "except Exception" turns into an error result.
backfill(formatted_data, cat) ==
    IF formatted_data.t = "dict"
    THEN Obj([k \in DOMAIN formatted_data.o \cup required_fields(cat) |->
                IF k \in DOMAIN formatted_data.o THEN formatted_data.o[k]
                ELSE field_default(cat, k)])
    ELSE IF \A f \in required_fields(cat) : In(f, formatted_data)
    THEN formatted_data
    ELSE formatter_failure("Exception")

\* the part of these two formatters after the prompt is built
format_response(resp, cat) ==
    IF resp.kind # "content" THEN formatter_failure(resp.kind)
    ELSE IF ~json_valid(strip_fences(resp.content), resp.body)
        THEN formatter_failure("JSONDecodeError")
    ELSE backfill(json_loads(strip_fences(resp.content), resp.body), cat)

format_perplexity_output(resp) == format_response(resp, "activities")

format_with_azure_openai(resp) == format_response(resp, "accommodation")

----------------------------------------------------------------------------
(* Formatter: dining/openaicalls.py, format_dining_perplexity_output *)

MealsServedKeys == {"Breakfast", "Lunch", "Dinner", "Late_Night", "24_Hours"}

ServiceStyleKeys ==
    {"Michelin_Star", "Fine_Dining", "Casual_Dining", "Bistro", "Cafe",
     "Bakery", "Breweries", "Farm_to_Table", "Cocktail_Bars", "Speakeasys",
     "Tapas_Bar", "Rooftop_Bar", "Dessert_Spot"}

CuisineKeys ==
    {"Fast_Food", "Modern_Indian", "Indian", "Continental", "Finger_Food",
     "Burmese", "Peruvian", "Lebanese", "Afghan", "Malaysian", "Vietnamese",
     "Pan_Asian", "Mediterranean", "Thai", "Italian", "Japanese", "Mexican",
     "Modern_European", "Contemporary_Dining", "Molecular_Gastronomy"}

DietaryKeys ==
    {"Vegetarian_Non_Vegetarian", "Vegetarian", "Vegan_Options",
     "Seafood_Speciality"}

GuestPersonaKeys ==
    {"Couple_Friendly", "Family_Friendly", "Especially_For_Kids",
     "No_Kids_Allowed", "Senior_Friendly", "Pet_Friendly"}

VibeKeys ==
    {"Romantic_Intimate", "Refined_Elegant", "Luxurious_Formal",
     "Bohemian_Playful", "Modern_Chic", "Vibrant_Lively", "Relaxed_Cozy"}

DiningGroups ==
    {"Meals_Served", "Service_Style", "Cuisine", "Dietary", "Guest_Persona",
     "Vibe"}

DiningTextFields ==
    {"Country", "Destination L1 (State)", "Destination L2 (City)",
     "Destination L3 (Area)", "Description", "Recommended_Dishes"}

DiningFlagFields ==
    {"Private_Dining", "Party", "Reservation_Recommended", "Alcohol_Served"}

group_keys(group) ==
    CASE group = "Meals_Served"  -> MealsServedKeys
      [] group = "Service_Style" -> ServiceStyleKeys
      [] group = "Cuisine"       -> CuisineKeys
      [] group = "Dietary"       -> DietaryKeys
      [] group = "Guest_Persona" -> GuestPersonaKeys
      [] group = "Vibe"          -> VibeKeys

expected_structure ==
    [k \in DiningTextFields \cup DiningFlagFields \cup DiningGroups |->
        IF k \in DiningTextFields THEN Str(NA)
        ELSE IF k \in DiningFlagFields THEN False
        ELSE Obj([j \in group_keys(k) |-> False])]

\* merge_with_defaults works on dicts; actual.items() on anything else
\* raises AttributeError
RECURSIVE merge_with_defaults(_, _)
merge_with_defaults(expected, actual) ==
    [key \in DOMAIN expected |->
        IF key \in DOMAIN actual
        THEN IF actual[key].t = "dict" /\ expected[key].t = "dict"
             THEN Obj(merge_with_defaults(expected[key].o, actual[key].o))
             ELSE actual[key]
        ELSE expected[key]]

format_dining_perplexity_output(resp) ==
    IF resp.kind # "content" THEN formatter_failure(resp.kind)
    ELSE IF ~json_valid(strip_fences(resp.content), resp.body)
        THEN formatter_failure("JSONDecodeError")
    ELSE LET formatted_data ==
                json_loads(strip_fences(resp.content), resp.body)
         IN  IF formatted_data.t # "dict" THEN formatter_failure("Exception")
             ELSE Obj(merge_with_defaults(expected_structure,
                                          formatted_data.o))

----------------------------------------------------------------------------
(* Inputs *)

MaxOmitted == 2         \* schema keys one formatting answer leaves out

Names == { <<"E">>, <<" ", "E", " ">> }
Cities == { <<>>, <<"P">> }
PplxKeys == { PplxPrefix \o <<"k">>, <<"s", "k", "-", "k">> }

Categories == {"activities", "dining", "accommodation"}

NoBody == [valid |-> FALSE, v |-> Obj(EmptyDict)]
Json(v) == [valid |-> TRUE, v |-> v]

Failure(kind) == [kind |-> kind, content |-> <<>>, body |-> NoBody]
Content(text, body) == [kind |-> "content", content |-> text, body |-> body]

Plain == <<"@">>
Fenced == FenceJson \o <<"\n", "@", "\n">> \o Fence
FencedUntagged == Fence \o <<"\n", "@", "\n">> \o Fence

\* places of the API response
NoPlace ==
    [present |-> {}, formattedAddress |-> <<>>, types |-> <<>>,
     editorialSummary |-> <<>>, generativeSummary |-> <<>>, rating |-> "0",
     websiteUri |-> <<>>, googleMapsUri |-> <<>>,
     regularOpeningHours |-> <<>>, photos |-> <<>>, reviews |-> <<>>]

RichPlace ==
    [present |-> {"formattedAddress", "types", "editorialSummary", "rating",
                  "websiteUri", "googleMapsUri", "regularOpeningHours",
                  "photos", "reviews"},
     formattedAddress |-> Lit("Champ de Mars, Paris, France"),
     types |-> <<Lit("tourist_attraction"), Lit("landmark")>>,
     editorialSummary |-> One("text", Lit("Iron tower")),
     generativeSummary |-> <<>>,
     rating |-> "4.7",
     websiteUri |-> <<"w", "/", "?", "q">>,
     googleMapsUri |-> Lit("https://maps.google.com/?cid=1"),
     regularOpeningHours |-> << <<"9", "U+2013", "5">> >>,
     photos |-> <<Lit("places/1/photos/a"), Lit("places/1/photos/b")>>,
     reviews |-> <<[text |-> Lit("Great"), publishTime |-> Lit("2024-01-01")]>>]

OtherPlace ==
    [NoPlace EXCEPT !.present = {"formattedAddress", "photos"},
                    !.formattedAddress = Lit("Elsewhere"),
                    !.photos = <<Lit("places/2/photos/z")>>]

PhotoNames == { <<>>, Lit("places/1/photos/a"), Lit("places/1/photos/b") }

RECURSIVE SeqsUpTo(_, _)
SeqsUpTo(S, n) ==
    IF n = 0 THEN { <<>> }
    ELSE LET shorter == SeqsUpTo(S, n - 1)
         IN  shorter \cup { Append(q, x) : q \in shorter, x \in S }

Ok(places) == [kind |-> "ok", places |-> places]
LookupFailure(kind) == [kind |-> kind, places |-> <<>>]

LookupFailures ==
    { LookupFailure(k) : k \in {"RequestException", "JSONDecodeError", "Exception"} }

\* the places API responses of a pipeline run
ReviewTexts == <<"r1", "r2", "r3", "r4", "r5", "r6", "r7", "r8">>

\* a place with MaxReviews reviews
ReviewedPlace ==
    [RichPlace EXCEPT !.reviews =
        [i \in 1..MaxReviews |->
            [text |-> Lit(ReviewTexts[i]), publishTime |-> Lit("2024-01-01")]]]

PipelinePlaceResponses ==
    LookupFailures
        \cup { Ok(<<>>), Ok(<<RichPlace>>), Ok(<<NoPlace, RichPlace>>),
               Ok(<<ReviewedPlace>>) }

\* the places API responses the lookup is checked on alone
PhotoPlaces ==
    { [RichPlace EXCEPT !.photos = ph] : ph \in SeqsUpTo(PhotoNames, MaxPhotos) }
        \cup { NoPlace }

\* places whose website is any short text of a letter, slashes and
\* question marks
UrlUnits == {"w", "/", "?"}

WebsitePlaces ==
    { [RichPlace EXCEPT !.websiteUri = u] : u \in SeqsUpTo(UrlUnits, MaxUrl) }

\* places with one weekday description, any short text over a digit, a space,
\* a hyphen and the four characters the lookup replaces, and places with
\* several descriptions
HourUnits == {"9", " ", "-", "U+2009", "U+2013", "U+202F", "U+00A0"}

DayTexts == { <<"9", "U+00A0">>, <<"U+2013", "9">>, <<"9">> }

HoursPlaces ==
    { [RichPlace EXCEPT !.regularOpeningHours = <<h>>] :
        h \in SeqsUpTo(HourUnits, MaxHourLen) }
      \cup { [RichPlace EXCEPT !.regularOpeningHours = h] :
                h \in SeqsUpTo(DayTexts, MaxDays) }

\* n further candidates after the first
Others(n) == [i \in 1..n |-> OtherPlace]

LookupResponses ==
    LookupFailures
        \cup { Ok(<<>>) }
        \cup { Ok(<<pl>> \o Others(n)) :
                    pl \in PhotoPlaces, n \in 0..(MaxPlaces - 1) }
        \cup { Ok(<<pl>>) : pl \in WebsitePlaces }
        \cup { Ok(<<pl>>) : pl \in HoursPlaces }

ResolverResponses ==
    { Failure("RequestException"), Failure("nochoices"),
      Content(Plain, NoBody),
      Content(Fenced, Json(Obj([k \in {"place_name", "city"} |->
                  IF k = "place_name" THEN Str(Lit("Tour Eiffel"))
                  ELSE Str(Lit("Paris"))]))),
      Content(Plain, Json(Obj(EmptyDict))),
      Content(Plain, Json(List(<<>>))) }

ResearchResponses ==
    { Failure("RequestException"), Failure("nochoices"),
      Content(Plain, NoBody),
      Content(Fenced, NoBody),
      Content(Fenced, Json(Obj(One("Must_Do", Str(Lit("Yes")))))),
      Content(Plain, Json(List(<<Lit("note")>>))) }

\* the keys of the JSON structure each formatting prompt asks for
ActivitiesSchemaKeys ==
    {"Country", "Destination L1 (State)", "Destination L2 (City)",
     "Destination L3 (Area)"} \cup ActivitiesRequiredFields

AccommodationSchemaKeys ==
    {"Country", "Destination L1 (State)", "Destination L2 (City)",
     "Destination L3 (Area)", "Category", "Name", "Description",
     "Google Rating"} \cup AccommodationBooleanFields

DiningSchemaKeys == DOMAIN expected_structure

Styles == {"typed", "stringly"}

Flag(style) == IF style = "typed" THEN True ELSE Str(Lit("Yes"))

ModelName == Str(Lit("Tour Eiffel"))

activities_answer_value(k, style) ==
    IF k \in ActivitiesBooleanFields THEN Flag(style)
    ELSE IF k \in ActivitiesPriceFields
        THEN IF style = "typed" THEN Num("500") ELSE Str(Lit("500 INR"))
    ELSE IF k = "Duration"
        THEN IF style = "typed" THEN Num("2.5") ELSE Str(Lit("2-3 hours"))
    ELSE IF k = "Name" THEN ModelName
    ELSE Str(Lit("text"))

accommodation_answer_value(k, style) ==
    IF k \in AccommodationBooleanFields THEN Flag(style)
    ELSE IF k = "Name" THEN ModelName
    ELSE Str(Lit("text"))

dining_answer_value(k, style, subomit) ==
    IF k \in DiningGroups
        THEN Obj([j \in (group_keys(k) \cup
                            (IF k = "Meals_Served" THEN {"Brunch"} ELSE {}))
                        \ { q[2] : q \in { r \in subomit : r[1] = k } }
                    |-> Flag(style)])
    ELSE IF k \in DiningFlagFields THEN Flag(style)
    ELSE IF k = "Name" THEN ModelName
    ELSE Str(Lit("text"))

ActivitiesProbe ==
    {"Country", "Duration", "Price_Adult_INR", "Must_Do", "Description", "Name"}
AccommodationProbe ==
    {"Country", "Destination L3 (Area)", "Name", "Pool", "Google Rating"}
DiningProbe == {"Country", "Private_Dining", "Meals_Served", "Extra"}
DiningSubProbe == { <<"Meals_Served", "Breakfast">>, <<"Meals_Served", "Brunch">> }

Omissions(probe) == { om \in SUBSET probe : Cardinality(om) <= MaxOmitted }

\* the JSON objects the formatting model answers with: the whole structure
\* less the omitted keys
ActivitiesAnswers ==
    { [k \in (ActivitiesSchemaKeys \cup {"Name"}) \ om |->
            activities_answer_value(k, st)] :
        om \in Omissions(ActivitiesProbe), st \in Styles }
      \* an answer that also emits two fields of the PlaceRecord
      \cup { [k \in ActivitiesSchemaKeys \cup {"website", "google_rating"} |->
                IF k = "website" THEN Str(Lit("https://model.example"))
                ELSE IF k = "google_rating" THEN Num("1.0")
                ELSE activities_answer_value(k, "typed")] }

AccommodationAnswers ==
    { [k \in AccommodationSchemaKeys \ om |->
            accommodation_answer_value(k, st)] :
        om \in Omissions(AccommodationProbe), st \in Styles }

DiningAnswers ==
    { [k \in (DiningSchemaKeys \cup {"Name", "Extra"}) \ om |->
            dining_answer_value(k, st, sub)] :
        om \in Omissions(DiningProbe), sub \in SUBSET DiningSubProbe,
        st \in Styles }
      \cup { [k \in DiningSchemaKeys |->
                IF k = "Meals_Served" THEN Str(Lit("Breakfast, Lunch"))
                ELSE dining_answer_value(k, "typed", {})] }

RECURSIVE SetToSeq(_)
SetToSeq(S) ==
    IF S = {} THEN <<>>
    ELSE LET x == CHOOSE y \in S : TRUE
         IN  <<Lit(x)>> \o SetToSeq(S \ {x})

Answers(cat) ==
    CASE cat = "activities"    -> ActivitiesAnswers
      [] cat = "dining"        -> DiningAnswers
      [] cat = "accommodation" -> AccommodationAnswers

\* a JSON array that lists the required field names
FieldList(cat) ==
    CASE cat = "activities"    -> List(SetToSeq(ActivitiesRequiredFields))
      [] cat = "dining"        -> List(SetToSeq(DiningSchemaKeys))
      [] cat = "accommodation" -> List(SetToSeq(AccommodationRequiredFields))

FormatterResponses(cat) ==
    { Failure("RequestException"), Failure("nochoices"),
      Content(Plain, NoBody),
      Content(Plain, Json(List(<<>>))),
      Content(Plain, Json(FieldList(cat))) }
        \cup { Content(text, Json(Obj(a))) :
                    text \in {Plain, Fenced, FencedUntagged},
                    a \in Answers(cat) }

\* the category's formatter
formatter(cat, resp) ==
    CASE cat = "activities"    -> format_perplexity_output(resp)
      [] cat = "dining"        -> format_dining_perplexity_output(resp)
      [] cat = "accommodation" -> format_with_azure_openai(resp)

----------------------------------------------------------------------------
(* Orchestrators *)

NoValue == Obj(EmptyDict)

Return(v) ==
    /\ outcome' = "returned"
    /\ result' = v
    /\ pc' = "done"
    /\ raised' = raised
    /\ UNCHANGED bvars

Raise(exception) ==
    /\ outcome' = "raised"
    /\ raised' = exception
    /\ pc' = "done"
    /\ result' = result
    /\ UNCHANGED bvars

Continue(next) ==
    /\ pc' = next
    /\ UNCHANGED <<outcome, result, raised>>
    /\ UNCHANGED bvars

MergeExcluded_short == {"Category", "reviews", "Formatted Address"}
MergeExcluded == {"Category", "Description", "reviews", "Formatted Address"}

merge_place_fields_keeping_model(formatted_output, place) ==
    IF place.t = "dict" /\ formatted_output.t = "dict"
            /\ ~HasError(formatted_output.o)
    THEN Obj([k \in DOMAIN formatted_output.o
                        \cup (DOMAIN place.o \ MergeExcluded) |->
                IF k \in DOMAIN formatted_output.o THEN formatted_output.o[k]
                ELSE place.o[k]])
    ELSE formatted_output

\* the loop copying the PlaceRecord's fields into the formatter's output
merge_place_fields(formatted_output, place) ==
    IF place.t = "dict" /\ formatted_output.t = "dict"
            /\ ~HasError(formatted_output.o)
    THEN Obj([k \in DOMAIN formatted_output.o
                        \cup (DOMAIN place.o \ MergeExcluded) |->
                IF k \in DOMAIN place.o \ MergeExcluded THEN place.o[k]
                ELSE formatted_output.o[k]])
    ELSE formatted_output

\* the end of populate_activities and populate_dining, from the formatter's
\* result on: merge, then formatted_output['Name'] = name, which raises
\* TypeError when the formatter returned a list
FinishWithName(formatted_output, place) ==
    LET merged == merge_place_fields(formatted_output, place)
    IN  IF merged.t = "dict"
        THEN Return(Obj(Put(merged.o, "Name", Str(user_name))))
        ELSE Raise("TypeError")

\* single mode: no table was uploaded
NoBatch ==
    /\ batch = "none"
    /\ df = <<>>
    /\ row_index = 0
    /\ invoked = <<>>
    /\ row_log = <<>>
    /\ returned_rows = <<>>
    /\ progress = <<>>
    /\ final_df = <<>>

Init ==
    /\ category \in Categories
    /\ user_name \in Names
    /\ user_city \in Cities
    /\ pplx_key \in PplxKeys
    /\ pc = "start"
    /\ search_params = NoValue
    /\ place_details = NoValue
    /\ research = NoValue
    /\ prompt = NoPrompt
    /\ formatted = NoValue
    /\ outcome = "running"
    /\ result = NoValue
    /\ raised = "none"
    /\ calls = <<>>
    /\ requests = <<>>
    /\ api_response = Ok(<<>>)
    /\ llm_responses = <<>>
    /\ NoBatch

Inputs == <<category, user_name, user_city, pplx_key>>

(* populate_activities *)

ActResolve ==
    /\ category = "activities" /\ pc = "start"
    /\ \E resp \in ResolverResponses :
        /\ search_params' =
              get_google_places_search_params(user_name, user_city, resp)
        /\ llm_responses' = Append(llm_responses, resp)
        /\ IF HasError(search_params'.o)
           THEN Return(search_params') ELSE Continue("lookup")
    /\ calls' = Append(calls, "Resolver")
    /\ requests' = Append(requests, "Resolver")
    /\ UNCHANGED <<Inputs, place_details, research, prompt, formatted, api_response>>

ActLookup_retrying ==
    /\ category = "activities" /\ pc = "lookup"
    /\ \E resp \in PipelinePlaceResponses :
        /\ api_response' = resp
        /\ place_details' = search_places_with_details(resp)
        /\ IF resp.kind = "ok" THEN Continue("research") ELSE Continue("lookup")
    /\ calls' = Append(calls, "PlacesLookup")
    /\ requests' = Append(requests, "PlacesLookup")
    /\ UNCHANGED <<Inputs, search_params, research, prompt, formatted, llm_responses>>

ActLookup ==
    /\ category = "activities" /\ pc = "lookup"
    /\ \E resp \in PipelinePlaceResponses :
        /\ api_response' = resp
        /\ place_details' = search_places_with_details(resp)
    /\ Continue("research")
    /\ calls' = Append(calls, "PlacesLookup")
    /\ requests' = Append(requests, "PlacesLookup")
    /\ UNCHANGED <<Inputs, search_params, research, prompt, formatted, llm_responses>>

ActResearch ==
    /\ category = "activities" /\ pc = "research"
    /\ \E resp \in ResearchResponses :
        /\ research' = analyze_activity_with_perplexity(pplx_key, place_details, resp)
        /\ llm_responses' =
              IF research_sends_request("activities", pplx_key, place_details)
              THEN Append(llm_responses, resp) ELSE llm_responses
    /\ Continue("format")
    /\ calls' = Append(calls, "ResearchAnalyzer")
    /\ requests' =
          IF research_sends_request("activities", pplx_key, place_details)
          THEN Append(requests, "ResearchAnalyzer") ELSE requests
    /\ prompt' =
          IF research_sends_request("activities", pplx_key,
                                    place_details)
          THEN research_prompt("activities",
                               place_details)
          ELSE prompt
    /\ UNCHANGED <<Inputs, search_params, place_details, formatted, api_response>>

ActFormat ==
    /\ category = "activities" /\ pc = "format"
    /\ calls' = Append(calls, "Formatter")
    /\ IF formatter_raises(place_details)
       THEN /\ Raise("TypeError")
            /\ UNCHANGED <<formatted, requests, llm_responses>>
       ELSE /\ \E resp \in FormatterResponses("activities") :
                /\ formatted' = format_perplexity_output(resp)
                /\ llm_responses' = Append(llm_responses, resp)
            /\ requests' = Append(requests, "Formatter")
            /\ FinishWithName(formatted', place_details)
    /\ UNCHANGED <<Inputs, search_params, place_details, research, prompt, api_response>>

(* populate_dining *)

DinLookup ==
    /\ category = "dining" /\ pc = "start"
    /\ \E resp \in PipelinePlaceResponses :
        /\ api_response' = resp
        /\ place_details' = search_places_with_details(resp)
    /\ IF HasError(place_details'.o)
       THEN Return(place_details') ELSE Continue("research")
    /\ calls' = Append(calls, "PlacesLookup")
    /\ requests' = Append(requests, "PlacesLookup")
    /\ UNCHANGED <<Inputs, search_params, research, prompt, formatted, llm_responses>>

DinResearch ==
    /\ category = "dining" /\ pc = "research"
    /\ \E resp \in ResearchResponses :
        /\ research' = get_dining_info(pplx_key, place_details, resp)
        /\ llm_responses' =
              IF research_sends_request("dining", pplx_key, place_details)
              THEN Append(llm_responses, resp) ELSE llm_responses
    /\ Continue("format")
    /\ calls' = Append(calls, "ResearchAnalyzer")
    /\ requests' =
          IF research_sends_request("dining", pplx_key, place_details)
          THEN Append(requests, "ResearchAnalyzer") ELSE requests
    /\ prompt' =
          IF research_sends_request("dining", pplx_key,
                                    place_details)
          THEN research_prompt("dining",
                               place_details)
          ELSE prompt
    /\ UNCHANGED <<Inputs, search_params, place_details, formatted, api_response>>

DinFormat_updating_place ==
    /\ category = "dining" /\ pc = "format"
    /\ calls' = Append(calls, "Formatter")
    /\ IF formatter_raises(place_details)
       THEN /\ Raise("TypeError")
            /\ UNCHANGED <<formatted, requests, llm_responses, place_details>>
       ELSE /\ \E resp \in FormatterResponses("dining") :
                /\ formatted' = format_dining_perplexity_output(resp)
                /\ llm_responses' = Append(llm_responses, resp)
            /\ requests' = Append(requests, "Formatter")
            /\ FinishWithName(formatted', place_details)
            /\ place_details' = IF outcome' = "returned" THEN result'
                                ELSE place_details
    /\ UNCHANGED <<Inputs, search_params, research, prompt, api_response>>

DinFormat ==
    /\ category = "dining" /\ pc = "format"
    /\ calls' = Append(calls, "Formatter")
    /\ IF formatter_raises(place_details)
       THEN /\ Raise("TypeError")
            /\ UNCHANGED <<formatted, requests, llm_responses>>
       ELSE /\ \E resp \in FormatterResponses("dining") :
                /\ formatted' = format_dining_perplexity_output(resp)
                /\ llm_responses' = Append(llm_responses, resp)
            /\ requests' = Append(requests, "Formatter")
            /\ FinishWithName(formatted', place_details)
    /\ UNCHANGED <<Inputs, search_params, place_details, research, prompt, api_response>>

(* populate_accommodation *)

ContextKeys == {"Formatted Address", "Description", "google_rating", "Category"}

\* places_context_for_llms
places_context(places_api_output) ==
    Obj([k \in ContextKeys |-> places_api_output.o[k]])

AccLookup ==
    /\ category = "accommodation" /\ pc = "start"
    /\ \E resp \in PipelinePlaceResponses :
        /\ api_response' = resp
        /\ place_details' = search_places_with_details(resp)
    /\ IF HasError(place_details'.o) THEN Return(place_details')
       \* places_api_output["Formatted Address"] and the next three lookups
       ELSE IF ~(ContextKeys \subseteq DOMAIN place_details'.o)
       THEN Raise("KeyError")
       ELSE Continue("research")
    /\ calls' = Append(calls, "PlacesLookup")
    /\ requests' = Append(requests, "PlacesLookup")
    /\ UNCHANGED <<Inputs, search_params, research, prompt, formatted, llm_responses>>

AccResearch_retrying ==
    /\ category = "accommodation" /\ pc = "research"
    /\ \E resp \in ResearchResponses :
        /\ research' = analyze_place_with_perplexity(
                          pplx_key, places_context(place_details), resp)
        /\ llm_responses' =
              IF research_sends_request("accommodation", pplx_key,
                                        places_context(place_details))
              THEN Append(llm_responses, resp) ELSE llm_responses
    /\ IF HasError(research'.o)
       THEN Continue("research")
       ELSE Continue("format")
    /\ calls' = Append(calls, "ResearchAnalyzer")
    /\ requests' =
          IF research_sends_request("accommodation", pplx_key,
                                    places_context(place_details))
          THEN Append(requests, "ResearchAnalyzer") ELSE requests
    /\ prompt' =
          IF research_sends_request("accommodation", pplx_key,
                                    places_context(place_details))
          THEN research_prompt("accommodation",
                               places_context(place_details))
          ELSE prompt
    /\ UNCHANGED <<Inputs, search_params, place_details, formatted, api_response>>

AccResearch ==
    /\ category = "accommodation" /\ pc = "research"
    /\ \E resp \in ResearchResponses :
        /\ research' = analyze_place_with_perplexity(
                          pplx_key, places_context(place_details), resp)
        /\ llm_responses' =
              IF research_sends_request("accommodation", pplx_key,
                                        places_context(place_details))
              THEN Append(llm_responses, resp) ELSE llm_responses
    /\ IF HasError(research'.o)
       THEN Return(ErrorResult("No perplexity data available"))
       ELSE Continue("format")
    /\ calls' = Append(calls, "ResearchAnalyzer")
    /\ requests' =
          IF research_sends_request("accommodation", pplx_key,
                                    places_context(place_details))
          THEN Append(requests, "ResearchAnalyzer") ELSE requests
    /\ prompt' =
          IF research_sends_request("accommodation", pplx_key,
                                    places_context(place_details))
          THEN research_prompt("accommodation",
                               places_context(place_details))
          ELSE prompt
    /\ UNCHANGED <<Inputs, search_params, place_details, formatted, api_response>>

AccCopied == {"website", "photo_urls", "google_maps_url"}

AccFormat ==
    /\ category = "accommodation" /\ pc = "format"
    /\ calls' = Append(calls, "Formatter")
    /\ IF formatter_raises(places_context(place_details))
       THEN /\ Raise("TypeError")
            /\ UNCHANGED <<formatted, requests, llm_responses>>
       ELSE /\ \E resp \in FormatterResponses("accommodation") :
                /\ formatted' = format_with_azure_openai(resp)
                /\ llm_responses' = Append(llm_responses, resp)
            /\ requests' = Append(requests, "Formatter")
            /\ IF In("error", formatted')
               THEN Return(ErrorResult("No formatted output available"))
               \* formatted_output["website"] = ... on a list
               ELSE IF formatted'.t # "dict" THEN Raise("TypeError")
               ELSE Return(Obj([k \in DOMAIN formatted'.o \cup AccCopied |->
                        IF k \in AccCopied THEN place_details.o[k]
                        ELSE formatted'.o[k]]))
    /\ UNCHANGED <<Inputs, search_params, place_details, research, prompt, api_response>>

Next ==
    \/ ActResolve \/ ActLookup \/ ActResearch \/ ActFormat
    \/ DinLookup \/ DinResearch \/ DinFormat
    \/ AccLookup \/ AccResearch \/ AccFormat

Spec == Init /\ [][Next]_vars

----------------------------------------------------------------------------
(* PlacesLookup alone, on every response of LookupResponses *)

InitPlaces ==
    /\ api_response \in LookupResponses
    /\ category = "activities"
    /\ user_name = <<"E">>
    /\ user_city = <<"P">>
    /\ pplx_key = PplxPrefix \o <<"k">>
    /\ pc = "lookup"
    /\ search_params = NoValue
    /\ place_details = NoValue
    /\ research = NoValue
    /\ prompt = NoPrompt
    /\ formatted = NoValue
    /\ outcome = "running"
    /\ result = NoValue
    /\ raised = "none"
    /\ calls = <<>>
    /\ requests = <<>>
    /\ llm_responses = <<>>
    /\ NoBatch

LookupOnly ==
    /\ pc = "lookup"
    /\ place_details' = search_places_with_details(api_response)
    /\ pc' = "looked_up"
    /\ calls' = Append(calls, "PlacesLookup")
    /\ requests' = Append(requests, "PlacesLookup")
    /\ UNCHANGED <<Inputs, search_params, research, prompt, formatted, outcome,
                   result, raised, api_response, llm_responses>>
    /\ UNCHANGED bvars

NextPlaces == LookupOnly

SpecPlaces == InitPlaces /\ [][NextPlaces]_vars

----------------------------------------------------------------------------
(* The ResearchAnalyzer alone: one call of a category's analyzer on a
   PlacesLookup result *)

research_analyzer(cat, api_key, places_api_output, resp) ==
    CASE cat = "activities" ->
            analyze_activity_with_perplexity(api_key, places_api_output, resp)
      [] cat = "dining" ->
            analyze_dining_with_perplexity(api_key, places_api_output, resp)
      [] cat = "accommodation" ->
            analyze_place_with_perplexity(api_key, places_api_output, resp)

\* what the orchestrator hands to the analyzer: the PlacesLookup result, in
\* populate_accommodation the four fields of places_context_for_llms
analyzer_input(cat, place) ==
    IF cat = "accommodation" /\ ContextKeys \subseteq DOMAIN place.o
    THEN places_context(place) ELSE place

InitResearch ==
    /\ category \in Categories
    /\ pplx_key \in PplxKeys
    /\ api_response \in PipelinePlaceResponses
    /\ place_details = search_places_with_details(api_response)
    /\ user_name = <<"E">>
    /\ user_city = <<"P">>
    /\ pc = "research"
    /\ search_params = NoValue
    /\ research = NoValue
    /\ prompt = NoPrompt
    /\ formatted = NoValue
    /\ outcome = "running"
    /\ result = NoValue
    /\ raised = "none"
    /\ calls = <<"PlacesLookup">>
    /\ requests = <<"PlacesLookup">>
    /\ llm_responses = <<>>
    /\ NoBatch

ResearchOnly ==
    /\ pc = "research"
    /\ \E resp \in ResearchResponses :
        /\ research' = research_analyzer(category, pplx_key,
                        analyzer_input(category, place_details), resp)
        /\ llm_responses' =
              IF research_sends_request(category, pplx_key,
                                    analyzer_input(category, place_details))
              THEN Append(llm_responses, resp) ELSE llm_responses
    /\ pc' = "researched"
    /\ calls' = Append(calls, "ResearchAnalyzer")
    /\ requests' =
          IF research_sends_request(category, pplx_key,
                                    analyzer_input(category, place_details))
          THEN Append(requests, "ResearchAnalyzer") ELSE requests
    /\ prompt' =
          IF research_sends_request(category, pplx_key,
                                    analyzer_input(category, place_details))
          THEN research_prompt(category,
                               analyzer_input(category, place_details))
          ELSE prompt
    /\ UNCHANGED <<Inputs, search_params, place_details, formatted, outcome,
                   result, raised, api_response>>
    /\ UNCHANGED bvars

NextResearch == ResearchOnly

SpecResearch == InitResearch /\ [][NextResearch]_vars

----------------------------------------------------------------------------
(* Batch mode: app.py, process_activity / process_restaurant /
   process_accommodation, applied to the uploaded rows one after another *)

EntityColumn(cat) ==
    CASE cat = "activities"    -> "activity name"
      [] cat = "dining"        -> "restaurant name"
      [] cat = "accommodation" -> "accommodation name"

\* the keys process_* reads with data[...]
ActivitiesRowKeys ==
    {"Country", "Destination L1 (State)", "Destination L2 (City)",
     "Destination L3 (Area)", "Name", "Description", "Price_Adult_INR",
     "Price_Child_INR", "Duration", "Timings", "Season_Operational_Months",
     "Must_Do", "Group_Friendly", "Offbeat", "Historic_Cultural", "Party",
     "Pet_Friendly", "Adventurous", "Kid_Friendly", "Romantic",
     "Wellness_Relaxation", "Senior_Citizen_Friendly", "Inclusions",
     "Exclusions", "google_rating", "website", "google_maps_url",
     "photo_urls"}

\* the groups process_restaurant reads with data[group].get(...)
DiningRowGroups ==
    {"Service_Style", "Cuisine", "Dietary", "Guest_Persona", "Vibe"}

DiningRowKeys ==
    {"Country", "Destination L1 (State)", "Destination L2 (City)",
     "Destination L3 (Area)", "Name", "Description", "Recommended_Dishes",
     "Meals_Served", "opening_hours", "Private_Dining", "Party",
     "Reservation_Recommended", "Alcohol_Served", "google_rating", "website",
     "google_maps_url", "photo_urls"} \cup DiningRowGroups

AccommodationRowKeys ==
    {"Country", "Destination L1 (State)", "Destination L2 (City)",
     "Destination L3 (Area)", "Category", "Name", "Description", "Pool",
     "View", "Pet Friendly", "Kid Friendly", "Senior Citizen Friendly",
     "Romantic", "Google Rating", "website", "google_maps_url", "photo_urls"}

RowKeys(cat) ==
    CASE cat = "activities"    -> ActivitiesRowKeys
      [] cat = "dining"        -> DiningRowKeys
      [] cat = "accommodation" -> AccommodationRowKeys

\* "Photo 1" .. "Photo 10" read data["photo_urls"][0] .. [9]
PhotoColumns == 10

\* if data:
truthy(data) ==
    IF data.t = "dict" THEN data.o # EmptyDict
    ELSE IF data.t = "list" THEN data.l # <<>>
    ELSE TRUE

\* whether evaluating the pd.Series({...}) literal raises: KeyError on a key
\* the mapping lacks, AttributeError on a group that is no mapping,
\* IndexError on a photo index past the end of the list
series_raises(cat, data) ==
    \/ data.t # "dict"
    \/ ~(RowKeys(cat) \subseteq DOMAIN data.o)
    \/ cat = "dining" /\ \E g \in DiningRowGroups : data.o[g].t # "dict"
    \/ Len(data.o["photo_urls"].l) < PhotoColumns

\* url if url != "N/A" else ""
photo_cell(url) == IF url # NA THEN url ELSE EmptyText

\* the flattened row; the dining groups are kept as mappings here
data_row(cat, data) ==
    [kind |-> "data",
     fields |-> [k \in RowKeys(cat) \ {"photo_urls"} |-> data.o[k]],
     photos |-> [i \in 1..PhotoColumns |->
                    photo_cell(data.o["photo_urls"].l[i])]]

\* empty_data: "" for every column of the upload, then the row's name and city
empty_row(cat, row) ==
    [kind |-> "empty",
     fields |-> [c \in {EntityColumn(cat), "city"} |->
                    IF c = "city" THEN Str(row.city) ELSE Str(row.name)],
     photos |-> <<>>]

BatchRows ==
    { [name |-> <<"E">>, city |-> <<"P">>],
      [name |-> <<" ", "E", " ">>, city |-> <<"P">>] }

Uploads == UNION { SeqsUpTo(BatchRows, n) : n \in 1..MaxRows } \ { <<>> }

InitBatch ==
    /\ category \in Categories
    /\ pplx_key \in PplxKeys
    /\ df \in Uploads
    /\ batch = "running"
    /\ row_index = 0
    /\ invoked = <<>>
    /\ row_log = <<>>
    /\ returned_rows = <<>>
    /\ progress = <<>>
    /\ final_df = <<>>
    /\ user_name = <<>>
    /\ user_city = <<>>
    /\ pc = "idle"
    /\ search_params = NoValue
    /\ place_details = NoValue
    /\ research = NoValue
    /\ prompt = NoPrompt
    /\ formatted = NoValue
    /\ outcome = "running"
    /\ result = NoValue
    /\ raised = "none"
    /\ calls = <<>>
    /\ requests = <<>>
    /\ api_response = Ok(<<>>)
    /\ llm_responses = <<>>

\* df.apply hands the next row to process_*, which calls the orchestrator
RowStart ==
    /\ batch = "running" /\ pc = "idle" /\ row_index < Len(df)
    /\ row_index' = row_index + 1
    /\ invoked' = Append(invoked, row_index + 1)
    /\ user_name' = df[row_index + 1].name
    /\ user_city' = df[row_index + 1].city
    /\ pc' = "start"
    /\ search_params' = NoValue
    /\ place_details' = NoValue
    /\ research' = NoValue
    /\ prompt' = NoPrompt
    /\ formatted' = NoValue
    /\ outcome' = "running"
    /\ result' = NoValue
    /\ raised' = "none"
    /\ calls' = <<>>
    /\ requests' = <<>>
    /\ api_response' = Ok(<<>>)
    /\ llm_responses' = <<>>
    /\ UNCHANGED <<category, pplx_key, batch, df, row_log, returned_rows,
                   progress, final_df>>

\* process_* from the orchestrator's return on: the row, the progress report,
\* and after the last row the table; an exception leaves df.apply and is
\* caught by the handler's except Exception, which shows a message
RowDone ==
    /\ batch = "running" /\ pc = "done"
    /\ row_log' = Append(row_log, [outcome |-> outcome, data |-> result])
    /\ IF outcome = "raised"
            \/ (truthy(result) /\ series_raises(category, result))
       THEN /\ batch' = "aborted"
            /\ pc' = "stopped"
            /\ UNCHANGED <<returned_rows, progress, final_df>>
       ELSE LET row == IF truthy(result) THEN data_row(category, result)
                       ELSE empty_row(category, df[row_index])
                rows == Append(returned_rows, row)
            IN  /\ returned_rows' = rows
                /\ progress' = Append(progress, row_index)
                /\ IF row_index = Len(df)
                   THEN /\ batch' = "emitted"
                        /\ final_df' = rows
                        /\ pc' = "stopped"
                   ELSE /\ pc' = "idle"
                        /\ UNCHANGED <<batch, final_df>>
    /\ UNCHANGED <<Inputs, search_params, place_details, research, prompt, formatted,
                   outcome, result, raised, calls, requests, api_response,
                   llm_responses, df, row_index, invoked>>

NextBatch ==
    \/ RowStart \/ RowDone
    \/ ActResolve \/ ActLookup \/ ActResearch \/ ActFormat
    \/ DinLookup \/ DinResearch \/ DinFormat
    \/ AccLookup \/ AccResearch \/ AccFormat

SpecBatch == InitBatch /\ [][NextBatch]_vars

----------------------------------------------------------------------------
(* Properties *)

Range(q) == { q[i] : i \in 1..Len(q) }

Called(stage) == stage \in Range(calls)

Requested(stage) == stage \in Range(requests)

\* PlacesLookup returned a PlaceRecord
LookupHit == Called("PlacesLookup") /\ PlaceKeys \subseteq DOMAIN place_details.o

\* PlacesLookup returned the empty mapping
LookupEmpty == Called("PlacesLookup") /\ place_details = Obj(EmptyDict)

IsError(v) == v.t = "dict" /\ HasError(v.o)

ResearchSucceeded == Called("ResearchAnalyzer") /\ ~IsError(research)

FormatSucceeded ==
    Requested("Formatter") /\ formatted.t = "dict" /\ ~HasError(formatted.o)

\* a run in which the lookup hit and the research and formatting calls
\* succeeded, and which has returned
FullSuccess ==
    /\ pc = "done" /\ outcome = "returned"
    /\ LookupHit /\ ResearchSucceeded /\ FormatSucceeded

SchemaKeys(cat) ==
    CASE cat = "activities"    -> ActivitiesSchemaKeys
      [] cat = "dining"        -> DiningSchemaKeys
      [] cat = "accommodation" -> AccommodationSchemaKeys

BooleanFields(cat) ==
    CASE cat = "activities"    -> ActivitiesBooleanFields
      [] cat = "dining"        -> DiningFlagFields
      [] cat = "accommodation" -> AccommodationBooleanFields

\* the answer of the formatting model, when the formatter's request returned
\* a JSON object
FormatterResponse == llm_responses[Len(llm_responses)]

FormatterAnswered ==
    /\ Requested("Formatter")
    /\ FormatterResponse.kind = "content"
    /\ json_valid(strip_fences(FormatterResponse.content), FormatterResponse.body)
    /\ FormatterResponse.body.v.t = "dict"

FormatterAnswer == FormatterResponse.body.v.o

\* C1: on full success the returned record holds every key of the category's
\* schema, whatever keys the formatting model emitted.
C1_RecordHasEverySchemaKey ==
    FullSuccess => SchemaKeys(category) \subseteq DOMAIN result.o

\* C2: in a record a formatter returns without an error key, every boolean
\* field, top-level or inside a dining group, is true or false.
C2_BooleansAreBooleans ==
    FormatSucceeded =>
        /\ \A k \in BooleanFields(category) \cap DOMAIN formatted.o :
                formatted.o[k].t = "bool"
        /\ category = "dining" =>
                \A g \in DiningGroups \cap DOMAIN formatted.o :
                    /\ formatted.o[g].t = "dict"
                    /\ \A j \in DOMAIN formatted.o[g].o :
                            formatted.o[g].o[j].t = "bool"

\* C3: on full success the record's Name is the name the user supplied.
C3_NameIsUserName ==
    FullSuccess =>
        "Name" \in DOMAIN result.o /\ result.o["Name"] = Str(user_name)

\* C4: after PlacesLookup returned the empty mapping, neither the
\* ResearchAnalyzer nor the Formatter is invoked and no populated record is
\* returned.
C4_EmptyLookupIsTerminal ==
    LookupEmpty =>
        /\ ~Called("ResearchAnalyzer")
        /\ ~Called("Formatter")
        /\ outcome = "returned" => (result = Obj(EmptyDict) \/ IsError(result))

\* the first error-bearing result of a stage after the Resolver
SomeStageFailed ==
    IsError(place_details) \/ IsError(research) \/ IsError(formatted)

FirstError ==
    IF IsError(place_details) THEN place_details
    ELSE IF IsError(research) THEN research
    ELSE formatted

\* C5: when a stage other than the Resolver returns an error result, the
\* orchestrator returns that result, with its message, and invokes no later
\* stage.
C5_FirstErrorIsReturned ==
    (pc = "done" /\ SomeStageFailed) =>
        /\ outcome = "returned"
        /\ IsError(result)
        /\ result.o["error"] = FirstError.o["error"]
        /\ IsError(place_details) => ~Called("ResearchAnalyzer")
        /\ (IsError(place_details) \/ IsError(research)) => ~Called("Formatter")

\* C6: no orchestrator raises, and every run that hit a failure returns a
\* mapping with an error key.
C6_NoExceptionLeaves ==
    /\ outcome # "raised"
    /\ (pc = "done" /\ ~FullSuccess) => (outcome = "returned" /\ IsError(result))

ResolverResponse == llm_responses[1]

ResolverFailed ==
    \/ ResolverResponse.kind # "content"
    \/ ~json_valid(strip_fences(ResolverResponse.content), ResolverResponse.body)

\* C7: the Resolver returns a mapping with exactly the keys place_name and
\* city, never an error key; on a transport failure, a missing choices list or
\* unparseable text, place_name is the trimmed activity text and city is the
\* context city, or "Unknown" when none was given.
C7_ResolverAlwaysAnswers ==
    Called("Resolver") =>
        /\ ~Called("PlacesLookup") => (outcome = "running" /\ pc = "lookup")
        /\ search_params.t = "dict"
        /\ DOMAIN search_params.o = {"place_name", "city"}
        /\ ResolverFailed =>
            /\ search_params.o["place_name"] = Str(strip(user_name))
            /\ search_params.o["city"] =
                  Str(IF user_city = <<>> THEN Lit("Unknown") ELSE user_city)

C7_Witness ==
    /\ Called("Resolver") /\ pc = "lookup"
    /\ ResolverResponse.kind = "RequestException"
    /\ user_name = <<" ", "E", " ">> /\ user_city = <<>>
    /\ search_params.o["place_name"] = Str(<<"E">>)
    /\ search_params.o["city"] = Str(Lit("Unknown"))

SourcePhotos ==
    IF "photos" \in api_response.places[1].present
    THEN api_response.places[1].photos ELSE <<>>

\* the photos among the first three of the source that carry a name
NamedAmongFirstThree ==
    Cardinality({ i \in 1..Len(SourcePhotos) : i <= 3 /\ SourcePhotos[i] # <<>> })

\* C8: a PlaceRecord's photo_urls has exactly three entries for any number of
\* source photos, with or without names; the entries that are not photos are
\* "N/A".
C8_ThreePhotoUrls ==
    (pc = "looked_up" /\ "photo_urls" \in DOMAIN place_details.o) =>
        LET photo_urls == place_details.o["photo_urls"].l
        IN  /\ Len(photo_urls) = 3
            /\ \A i \in 1..Len(photo_urls) :
                    i > NamedAmongFirstThree => photo_urls[i] = Lit("N/A")

C8_Witness ==
    /\ pc = "looked_up" /\ "photo_urls" \in DOMAIN place_details.o
    /\ Len(SourcePhotos) = 4
    /\ SourcePhotos[2] = <<>>
    /\ \A i \in {1, 3, 4} : SourcePhotos[i] # <<>>
    /\ place_details.o["photo_urls"].l[3] = Lit("N/A")

\* C9: the lookup returns the empty mapping on zero candidates and a mapping
\* with the key error when the request fails or the response cannot be
\* parsed.
C9_LookupFailureHasErrorKey ==
    pc = "looked_up" =>
        /\ (api_response.kind = "ok" /\ api_response.places = <<>>)
                => place_details = Obj(EmptyDict)
        /\ api_response.kind # "ok" => IsError(place_details)

RequiredFields(cat) ==
    CASE cat = "activities"    -> ActivitiesRequiredFields
      [] cat = "dining"        -> DiningSchemaKeys
      [] cat = "accommodation" -> AccommodationRequiredFields

NumericFields == {"Price_Adult_INR", "Price_Child_INR", "Duration"}

\* the default the formatters are documented to use
DocumentedDefault(cat, field) ==
    IF field \in BooleanFields(cat) THEN False
    ELSE IF cat = "activities" /\ field \in NumericFields THEN Num("0")
    ELSE IF cat = "dining" /\ field \in DiningGroups
        THEN expected_structure[field]
    ELSE IF cat = "activities" THEN Str(Lit("Not Available"))
    ELSE Str(Lit("N/A"))

\* C10: a required field the formatting model's JSON omits is held by the
\* formatter's result with the category default: false for a boolean, 0 for a
\* number, the text default for a text.
C10_OmittedFieldsTakeDefaults ==
    (FormatterAnswered /\ FormatSucceeded) =>
        \A field \in RequiredFields(category) \ DOMAIN FormatterAnswer :
            /\ field \in DOMAIN formatted.o
            /\ formatted.o[field] = DocumentedDefault(category, field)

\* C11: in a record the activities pipeline returns on full success,
\* Duration, Price_Adult_INR and Price_Child_INR are numbers, never strings,
\* whether the model supplied them as numbers, as text, or not at all.
C11_NumericFieldsAreNumbers ==
    (FullSuccess /\ category = "activities") =>
        \A field \in NumericFields :
            /\ field \in DOMAIN result.o
            /\ result.o[field].t = "num"

StageRank(stage) ==
    CASE stage = "Resolver"         -> 1
      [] stage = "PlacesLookup"     -> 2
      [] stage = "ResearchAnalyzer" -> 3
      [] stage = "Formatter"        -> 4

StrictlyStaged(log) ==
    \A i, j \in 1..Len(log) : i < j => StageRank(log[i]) < StageRank(log[j])

\* C13: within one run the stages are called only in the order Resolver
\* (activities only), PlacesLookup, ResearchAnalyzer, Formatter, each after the
\* previous one returned, and each stage sends at most one request, whatever
\* the responses are: no stage is called or requested a second time.
C13_StagesInOrderOnce ==
    /\ StrictlyStaged(calls)
    /\ StrictlyStaged(requests)
    /\ Range(requests) \subseteq Range(calls)
    /\ Called("Resolver") => category = "activities"
    /\ (category = "activities" /\ calls # <<>>) => calls[1] = "Resolver"
    /\ (category # "activities" /\ calls # <<>>) => calls[1] = "PlacesLookup"
    /\ \A i \in 1..Len(calls) - 1 :
            StageRank(calls[i + 1]) = StageRank(calls[i]) + 1

\* a run that went on after a failed lookup and a failed research request
C13_Witness ==
    /\ pc = "done" /\ category = "activities"
    /\ calls = <<"Resolver", "PlacesLookup", "ResearchAnalyzer", "Formatter">>
    /\ api_response.kind = "RequestException"

\* C14: when the research API key does not begin with pplx-, each of the three
\* analyzers returns a result with an error key and sends no request to the
\* research API; the key check comes before the empty-PlaceRecord check, so
\* the error is the key's even when the PlaceRecord is empty.
C14_BadKeyIsRejectedFirst ==
    (Called("ResearchAnalyzer") /\ ~startswith(pplx_key, PplxPrefix)) =>
        /\ IsError(research)
        /\ research # ErrorResult("No places data provided")
        /\ ~Requested("ResearchAnalyzer")
        /\ llm_responses = <<>>

C14_Witness ==
    /\ Called("ResearchAnalyzer") /\ ~startswith(pplx_key, PplxPrefix)
    /\ category = "accommodation"
    /\ place_details = Obj(EmptyDict)
    /\ IsError(research)

\* C15: for a JSON object J, each formatter returns the same result for J
\* wrapped in a triple-backquote fence, with or without the json tag, as for J
\* itself; a response that is not valid JSON after fence stripping yields an
\* error result.
C15_FencesAreTransparent ==
    (Requested("Formatter") /\ FormatterResponse.kind = "content") =>
        /\ (/\ FormatterResponse.content \in {Fenced, FencedUntagged}
            /\ FormatterResponse.body.valid
            /\ FormatterResponse.body.v.t = "dict")
                => formatted = formatter(category,
                                    Content(Plain, FormatterResponse.body))
        /\ ~json_valid(strip_fences(FormatterResponse.content),
                       FormatterResponse.body)
                => IsError(formatted)

\* a finished row whose pipeline failed: an exception, an error result, or
\* no place found
RowFailed(entry) ==
    \/ entry.outcome = "raised"
    \/ HasError(entry.data.o)
    \/ "photo_urls" \notin DOMAIN entry.data.o

\* C16: in batch mode a row whose pipeline failed gives an output row of empty
\* strings, and the batch goes on: a failed row never aborts the batch.
C16_FailedRowIsEmptyRow ==
    \A i \in 1..Len(row_log) :
        RowFailed(row_log[i]) =>
            /\ batch # "aborted"
            /\ Len(returned_rows) >= i
            /\ returned_rows[i].kind = "empty"

\* C17: in batch mode the pipeline is invoked once per row, in row order, a
\* row's progress is reported before the next row starts, and when the batch
\* has ended the table has one row per input row.
C17_OneRowPerInput ==
    /\ invoked = [i \in 1..row_index |-> i]
    /\ Len(progress) \in {row_index - 1, row_index}
    /\ progress = [i \in 1..Len(progress) |-> i]
    /\ pc = "stopped" =>
            /\ batch = "emitted"
            /\ invoked = [i \in 1..Len(df) |-> i]
            /\ Len(final_df) = Len(df)

\* C18: once PlacesLookup has returned the PlaceRecord, no later step of an
\* orchestrator changes it.
C18_PlaceRecordIsNotModified ==
    [][Called("PlacesLookup") => place_details' = place_details]_vars

C18_Witness ==
    /\ FullSuccess
    /\ Called("Formatter")
    /\ place_details = search_places_with_details(api_response)
    /\ result # place_details
    /\ result.o["photo_urls"] = place_details.o["photo_urls"]

\* the API response cut down to its first candidate
FirstCandidateOnly(resp) == [resp EXCEPT !.places = <<resp.places[1]>>]

\* C20: the PlaceRecord search_places_with_details returns is derived from the
\* first candidate of the API response only: it is the record the lookup
\* returns when the response holds that candidate alone, whatever the later
\* candidates are.
C20_FirstCandidateOnly ==
    (pc = "looked_up" /\ api_response.kind = "ok"
            /\ api_response.places # <<>>) =>
        place_details =
            search_places_with_details(FirstCandidateOnly(api_response))

C20_Witness ==
    /\ pc = "looked_up" /\ api_response.kind = "ok"
    /\ Len(api_response.places) >= 2
    /\ place_data_of(api_response.places[2]) # place_data_of(api_response.places[1])
    /\ place_details.o = place_data_of(api_response.places[1])
    /\ place_details.o["Formatted Address"] # Str(Lit("Elsewhere"))

\* the source place the lookup read
SourcePlace == api_response.places[1]

LookedUpPlace ==
    pc = "looked_up" /\ api_response.kind = "ok" /\ api_response.places # <<>>

\* C21: the website of a returned PlaceRecord has no question mark (so no
\* query string) and does not end with a slash, whatever the source URL is,
\* and cleaning it again leaves it unchanged.
C21_WebsiteIsClean ==
    LookedUpPlace =>
        LET website == place_details.o["website"].s
        IN  /\ ~Contains(website, "?")
            /\ ~endswith(website, <<"/">>)
            /\ clean_website(website) = website

C21_Witness ==
    /\ LookedUpPlace
    /\ SourcePlace.websiteUri = <<"w", "/", "/", "?">>
    /\ place_details.o["website"].s = <<"w">>

ReplacedUnits == {"U+2009", "U+2013", "U+202F", "U+00A0"}

\* C22: when the source place has weekday descriptions, opening_hours is a
\* list of the same length and order in which none of U+2009, U+2013, U+202F,
\* U+00A0 occurs: the three spaces became a space, the en dash a hyphen, and
\* every other character is unchanged; when the descriptions are absent or
\* empty, opening_hours is the literal N/A.
C22_OpeningHoursAreCleaned ==
    LookedUpPlace =>
        LET source == Get(SourcePlace, "regularOpeningHours", <<>>)
            hours == place_details.o["opening_hours"]
        IN  IF source = <<>> THEN hours = Str(NA)
            ELSE /\ hours.t = "list"
                 /\ Len(hours.l) = Len(source)
                 /\ \A i \in 1..Len(source) :
                        /\ Len(hours.l[i]) = Len(source[i])
                        /\ \A j \in 1..Len(source[i]) :
                            /\ hours.l[i][j] \notin ReplacedUnits
                            /\ source[i][j] \in {"U+2009", "U+202F", "U+00A0"}
                                    => hours.l[i][j] = " "
                            /\ source[i][j] = "U+2013" => hours.l[i][j] = "-"
                            /\ source[i][j] \notin ReplacedUnits
                                    => hours.l[i][j] = source[i][j]

C22_Witness ==
    /\ LookedUpPlace
    /\ SourcePlace.regularOpeningHours =
            << <<"9", "U+00A0">>, <<"U+2013", "9">> >>
    /\ place_details.o["opening_hours"].l = << <<"9", " ">>, <<"-", "9">> >>

\* the answer of the research model, when the analyzer's request returned one
ResearchResponse == llm_responses[Len(llm_responses)]

ResearchAnswered ==
    /\ pc = "researched" /\ Requested("ResearchAnalyzer")
    /\ ResearchResponse.kind = "content"

\* C23: when the research model's answer is not valid JSON, the activities
\* and dining analyzers return a result without an error key whose
\* raw_response is the model's text unchanged; the accommodation analyzer
\* never parses and always returns the model's text unchanged as raw_response.
C23_RawResponseIsModelText ==
    (/\ ResearchAnswered
     /\ \/ category = "accommodation"
        \/ ~json_valid(strip_fences(ResearchResponse.content),
                       ResearchResponse.body)) =>
        /\ ~IsError(research)
        /\ "raw_response" \in DOMAIN research.o
        /\ research.o["raw_response"] = Str(ResearchResponse.content)

\* C24: a result of the dining formatter that is no error has exactly the
\* top-level keys of the expected structure, and each of its six groups is a
\* mapping with exactly the group's expected sub-keys, whatever JSON object
\* the model returned.
C24_DiningResultHasExpectedShape ==
    (category = "dining" /\ FormatSucceeded) =>
        /\ DOMAIN formatted.o = DOMAIN expected_structure
        /\ \A group \in DiningGroups :
            /\ formatted.o[group].t = "dict"
            /\ DOMAIN formatted.o[group].o = group_keys(group)

\* the first five items, or all of them when there are fewer
FirstFive(q) == SubSeq(q, 1, IF Len(q) < 5 THEN Len(q) ELSE 5)

\* C25: in every pipeline the research prompt that is sent carries the
\* PlaceRecord's description, category, rating and address and the first five
\* review texts: all of them when there are fewer than five, never more.
C25_PromptCarriesPlaceData ==
    (LookupHit /\ Requested("ResearchAnalyzer")) =>
        /\ {"Google Description", "Google Category", "Google Rating",
            "Formatted Address", "Sample Reviews"} \subseteq DOMAIN prompt
        /\ prompt["Google Description"] = place_details.o["Description"]
        /\ prompt["Google Category"] = place_details.o["Category"]
        /\ prompt["Google Rating"] = place_details.o["google_rating"]
        /\ prompt["Formatted Address"] = place_details.o["Formatted Address"]
        /\ prompt["Sample Reviews"].l = FirstFive(place_details.o["reviews"].l)

\* C26: every index of photo_urls the presentation layer reads is within the
\* photo_urls list of the record the pipeline returned on full success, so
\* showing or exporting a successful record never fails on a photo index.
C26_PhotoIndexesAreInBounds ==
    FullSuccess =>
        /\ "photo_urls" \in DOMAIN result.o
        /\ \A i \in 1..PhotoColumns : i \in 1..Len(result.o["photo_urls"].l)

\* C27: populate_activities and populate_dining set Name to the user's text
\* on whatever the formatter returned: the run returns a mapping with that
\* Name, and when the formatter returned an error result the mapping is that
\* error result with the Name added and no PlaceRecord field merged in.
C27_NameIsSetOnAnyFormatterResult ==
    (category \in {"activities", "dining"} /\ pc = "done"
            /\ Requested("Formatter")) =>
        /\ outcome = "returned"
        /\ result.t = "dict"
        /\ "Name" \in DOMAIN result.o
        /\ result.o["Name"] = Str(user_name)
        /\ IsError(formatted) =>
                result.o = Put(formatted.o, "Name", Str(user_name))

CarriedOver ==
    {"google_rating", "website", "google_maps_url", "opening_hours",
     "photo_urls"}

\* C28: in the activities and dining pipelines, a key of the formatter's
\* output that is also a carried-over PlaceRecord field holds the
\* PlaceRecord's value in the final record, not the model's; every other key
\* of the formatter's output except Name is as the formatter returned it.
C28_PlaceValueWins ==
    (category \in {"activities", "dining"} /\ FullSuccess) =>
        \A k \in DOMAIN formatted.o :
            /\ k \in DOMAIN result.o
            /\ k \in CarriedOver => result.o[k] = place_details.o[k]
            /\ k \notin CarriedOver \cup {"Name"} =>
                    result.o[k] = formatted.o[k]

C28_Witness ==
    /\ category = "activities" /\ FullSuccess
    /\ "website" \in DOMAIN formatted.o
    /\ formatted.o["website"] # place_details.o["website"]
    /\ result.o["website"] = place_details.o["website"]
    /\ result.o["Description"] = formatted.o["Description"]

\* the names, in source order, of the photos among the first three of the
\* source that have a name
NamedFirstThree ==
    SelectSeq(SubSeq(SourcePhotos, 1,
                     IF Len(SourcePhotos) < 3 THEN Len(SourcePhotos) ELSE 3),
              LAMBDA name : name # <<>>)

\* C29: in the photo_urls of a returned PlaceRecord the real URLs come first,
\* in source order, one for each photo with a non-empty name among the first
\* three source photos, and N/A entries follow; a fourth or later source
\* photo is never used.
C29_RealPhotosFirstInOrder ==
    LookedUpPlace =>
        LET photo_urls == place_details.o["photo_urls"].l
        IN  \A i \in 1..Len(photo_urls) :
                IF i <= Len(NamedFirstThree)
                THEN photo_urls[i] = photo_url(NamedFirstThree[i])
                ELSE photo_urls[i] = NA

C29_Witness ==
    /\ LookedUpPlace
    /\ Len(SourcePhotos) = 4
    /\ SourcePhotos[1] = <<>>
    /\ SourcePhotos[2] # <<>> /\ SourcePhotos[3] # <<>> /\ SourcePhotos[4] # <<>>
    /\ SourcePhotos[2] # SourcePhotos[3]
    /\ place_details.o["photo_urls"].l =
            <<photo_url(SourcePhotos[2]), photo_url(SourcePhotos[3]), NA>>

\* the external requests an orchestrator may send: one per stage
RequestBudget == IF category = "activities" THEN 4 ELSE 3

\* the stage calls between the orchestrator's position and its last statement
StepsLeft ==
    CASE pc = "start"    -> RequestBudget
      [] pc = "lookup"   -> 3
      [] pc = "research" -> 2
      [] pc = "format"   -> 1
      [] OTHER           -> 0

\* the guard of the stage call at the orchestrator's position: the position
\* is one of its pipeline, and the request the stage sends returns or fails
StageEnabled ==
    /\ outcome = "running"
    /\ \/ /\ category = "activities" /\ pc = "start"
          /\ ResolverResponses # {}
       \/ /\ \/ category = "activities" /\ pc = "lookup"
             \/ category # "activities" /\ pc = "start"
          /\ PipelinePlaceResponses # {}
       \/ /\ pc = "research"
          /\ ResearchResponses # {}
       \/ /\ pc = "format"
          /\ FormatterResponses(category) # {}

Terminated ==
    /\ pc = "done"
    /\ \/ outcome = "returned" /\ result.t = "dict"
       \/ outcome = "raised"

\* C30: every orchestrator run terminates, with a returned mapping (a record
\* or an error result) or a raised exception, having sent at most four
\* external requests in the activities pipeline and at most three in the
\* dining and accommodation pipelines, given that each request returns or
\* fails. Termination is stated by a variant: a run that has not terminated
\* is at a stage call of its pipeline whose request returns or fails,
\* every stage call lowers the number of stage calls left, and a run with
\* none left has terminated; the requests sent and the stage calls left
\* never add up to more than the budget.
C30_RunTerminatesWithinBudget ==
    /\ [](Len(requests) + StepsLeft <= RequestBudget)
    /\ [](IF StepsLeft = 0 THEN Terminated ELSE StageEnabled)
    /\ [][StepsLeft' < StepsLeft]_vars

\* an activities run that spent its whole budget and returned
C30_Witness ==
    /\ Terminated /\ outcome = "returned" /\ category = "activities"
    /\ Len(requests) = RequestBudget
    /\ requests[Len(requests)] = "Formatter"

====
